---- MODULE Spec2Model ----
(***************************************************************************)
(* Hospital-Graphs: two single-file Streamlit dashboards over a local      *)
(* SQLite file.  app.py is the variant with a login gate and a validated,  *)
(* unique identity-document number (cnic); graphs.py is the variant with   *)
(* insert_record / delete_record / update_record helpers.                  *)
(*                                                                         *)
(* A step of the model is one user interaction: Streamlit reruns the whole *)
(* script from its first line, so every action begins with init_db and     *)
(* runs to the end of the script (or to st.stop, an exception, or through  *)
(* the extra run that st.rerun starts).                                    *)
(***************************************************************************)
EXTENDS Integers, Sequences, FiniteSets, TLC

VARIABLES
    program,        \* which script is deployed: "app", "graphs"; "dal" and "cnic" are the harnesses
    db,             \* hospital.db: table name -> [rows, seq]; a table not in DOMAIN db does not exist
    session_state,  \* st.session_state of the browser session: key -> value
    rendered,       \* the page the last script run drew
    out,            \* the messages the last interaction emitted (st.error, st.success, exceptions)
    shown,          \* the rows st.dataframe last displayed (a frame, in rowid order)
    form,           \* graphs.py: the pre-filled update_patient form on screen, {} when none
    pressed,        \* the button whose press started the last run, "" when none did
    pdfs,           \* app.py: the appointment ids whose slip appointment_<id>.pdf was written
    cnicIn,         \* validator harness: the string under test
    cnicOut         \* validator harness: "unchecked", or the validator's answer

vars == <<program, db, session_state, rendered, out, shown, form, pressed, pdfs, cnicIn, cnicOut>>

----------------------------------------------------------------------------
(* Bounds of the model. *)

\* The AUTOINCREMENT ids handed out, all tables together, are capped at MaxRows.
MaxRows == 3
\* The validator harness varies each digit group's length by up to Slack.
Slack == 1

----------------------------------------------------------------------------
(* Strings that the validator reads are sequences of characters. *)

NL == "\n"
DASH == "-"

\* Characters the regular expression class \d accepts (a sample of them):
\* in a str pattern \d is any Unicode decimal digit, ARABIC-INDIC DIGIT THREE
\* among them.  The claims' "digit" is read as widely as \d reads it.
DigitChars == {"0", "7", "U+0663"}

\* Characters that are not digits.
OtherChars == {DASH, NL, "a", " "}

Rep(n, ch) == [i \in 1..n |-> ch]

\* The three group lengths of the pattern r"^\d{5}-\d{7}-\d$".
Group1 == 5
Group2 == 7
Group3 == 1

\* \d{n} at position pos: n digits, all inside the string.
MatchDigits(s, pos, n) ==
    /\ pos + n - 1 <= Len(s)
    /\ \A i \in pos..(pos + n - 1) : s[i] \in DigitChars

\* A literal character at position pos.
MatchChar(s, pos, ch) == pos <= Len(s) /\ s[pos] = ch

\* Python's $ without re.MULTILINE: the end of the string, or just before a
\* newline that is the string's last character.
MatchDollar(s, pos) ==
    \/ pos = Len(s) + 1
    \/ pos = Len(s) /\ s[pos] = NL

\* valid_cnic(cnic): re.match anchors at the start of the string; the match
\* object is truthy, None is falsy.
valid_cnic(cnic) ==
    LET p1 == 1
        p2 == p1 + Group1
        p3 == p2 + 1
        p4 == p3 + Group2
        p5 == p4 + 1
        p6 == p5 + Group3
    IN  /\ MatchDigits(cnic, p1, Group1)
        /\ MatchChar(cnic, p2, DASH)
        /\ MatchDigits(cnic, p3, Group2)
        /\ MatchChar(cnic, p4, DASH)
        /\ MatchDigits(cnic, p5, Group3)
        /\ MatchDollar(cnic, p6)

\* The fixed pattern as the specification words it: 5 digits, a dash,
\* 7 digits, a dash, 1 digit, and nothing else.
FixedPattern(s) ==
    /\ Len(s) = Group1 + 1 + Group2 + 1 + Group3
    /\ \A i \in 1..Len(s) :
          IF i = Group1 + 1 \/ i = Group1 + Group2 + 2
          THEN s[i] = DASH
          ELSE s[i] \in DigitChars

----------------------------------------------------------------------------
(* SQLite, as far as the two scripts use it.  A table is                    *)
(* [schema, rows, seq]: its CREATE TABLE statement, its rows (functions from *)
(* column name to value) and its sqlite_sequence entry.                      *)

\* A database file with no table in it, and a session with no key in it.
NoTables == [t \in {} |-> 0]
NoKeys == [k \in {} |-> FALSE]

\* SQL NULL / Python None in the two text columns that can hold it.
None == <<>>

Max(S) == CHOOSE x \in S : \A y \in S : y <= x

\* A faulty variant of the next definition: the table is made anew even
\* when the file has it (DROP TABLE, CREATE TABLE).
CreateRecreate(d, t, schema) ==
    [x \in DOMAIN d \cup {t} |->
        IF x = t THEN [schema |-> schema, rows |-> {}, seq |-> 0] ELSE d[x]]

\* CREATE TABLE IF NOT EXISTS t(...): an existing table keeps schema and rows.
CreateIfNotExists(d, t, schema) ==
    IF t \in DOMAIN d
    THEN d
    ELSE [x \in DOMAIN d \cup {t} |->
            IF x = t THEN [schema |-> schema, rows |-> {}, seq |-> 0] ELSE d[x]]

\* executescript: the CREATE statements one after the other.
RECURSIVE CreateAll(_, _, _)
CreateAll(d, names, schemas) ==
    IF names = <<>>
    THEN d
    ELSE CreateAll(CreateIfNotExists(d, Head(names), schemas[Head(names)]),
                   Tail(names), schemas)

\* INTEGER PRIMARY KEY AUTOINCREMENT: one more than the largest rowid the
\* table holds or has ever held.
NextRowid(tbl) ==
    Max({tbl.seq} \cup {r[tbl.schema.id] : r \in tbl.rows}) + 1

\* The DEFAULT of a column that an INSERT leaves out; NULL when it has none.
Default(sch, c) == IF c \in DOMAIN sch.defaults THEN sch.defaults[c] ELSE None

\* A UNIQUE or PRIMARY KEY column of the new row collides with a stored row.
Collides(tbl, row) ==
    \E c \in tbl.schema.unique : \E r \in tbl.rows : r[c] = row[c]

\* The row an INSERT INTO t builds: `given` maps the supplied columns to
\* their values, `now` is what date('now') returns.
NewRow(tbl, given, now) ==
    [c \in tbl.schema.cols |->
        IF c = tbl.schema.id THEN NextRowid(tbl)
        ELSE IF c \in DOMAIN given THEN given[c]
        ELSE IF c \in tbl.schema.dated THEN now
        ELSE Default(tbl.schema, c)]

\* The database with `row` stored in t and sqlite_sequence brought up to it.
Stored(d, t, row) ==
    [d EXCEPT ![t] = [@ EXCEPT !.rows = @ \cup {row},
                               !.seq = IF d[t].schema.id = "" THEN @
                                       ELSE row[d[t].schema.id]]]

\* A faulty variant of the next definition: no UNIQUE constraint is checked.
SqlInsertNoCheck(d, t, given, now) ==
    [ok |-> TRUE, err |-> "", db |-> Stored(d, t, NewRow(d[t], given, now))]

\* INSERT INTO t.  The result is the new database, or the exception sqlite3
\* raises on a UNIQUE collision (the statement then changes nothing).
SqlInsert(d, t, given, now) ==
    IF Collides(d[t], NewRow(d[t], given, now))
    THEN [ok |-> FALSE, err |-> "IntegrityError", db |-> d]
    ELSE [ok |-> TRUE, err |-> "", db |-> Stored(d, t, NewRow(d[t], given, now))]

\* INSERT OR IGNORE: a colliding row is silently dropped.
SqlInsertOrIgnore(d, t, given, now) ==
    LET r == SqlInsert(d, t, given, now) IN IF r.ok THEN r.db ELSE d

\* DELETE FROM t WHERE col = v
SqlDelete(d, t, col, v) ==
    [d EXCEPT ![t].rows = {r \in @ : r[col] # v}]

\* UPDATE t SET f1 = ?, ... WHERE col = v; `given` maps the fields to values.
SqlUpdate(d, t, col, v, given) ==
    [d EXCEPT ![t].rows =
        { IF r[col] = v
          THEN [c \in DOMAIN r |-> IF c \in DOMAIN given THEN given[c] ELSE r[c]]
          ELSE r : r \in @ }]

\* SELECT * FROM t, as the data frame pandas builds: the rows in rowid order.
SelectAll(d, t) ==
    LET rows == d[t].rows
        idc  == d[t].schema.id
    IN  [i \in 1..Cardinality(rows) |->
            CHOOSE r \in rows : Cardinality({q \in rows : q[idc] < r[idc]}) = i - 1]

\* The number of ids the file has handed out so far (the cap of the model).
RECURSIVE SumSeq(_, _)
SumSeq(d, ts) ==
    IF ts = {} THEN 0
    ELSE LET t == CHOOSE x \in ts : TRUE IN d[t].seq + SumSeq(d, ts \ {t})

Used(d) == SumSeq(d, DOMAIN d)

\* SELECT * FROM t WHERE col = v: the matching rows.
SelectWhere(d, t, col, v) == {r \in d[t].rows : r[col] = v}

\* The rows of a frame, as a set.
FrameRows(f) == {f[i] : i \in 1..Len(f)}

----------------------------------------------------------------------------
(* app.py *)

NoDefaults == [c \in {} |-> None]

\* The CREATE TABLE statements of app.py's init_db.
AppTables == <<"Users", "Patients", "Doctors", "Appointments">>

AppSchemas ==
    [Users |-> [cols |-> {"username", "password", "role"}, id |-> "",
                unique |-> {"username"}, dated |-> {}, defaults |-> NoDefaults],
     Patients |-> [cols |-> {"id", "name", "cnic", "phone"}, id |-> "id",
                   unique |-> {"id", "cnic"}, dated |-> {}, defaults |-> NoDefaults],
     Doctors |-> [cols |-> {"id", "name", "cnic", "specialty"}, id |-> "id",
                  unique |-> {"id", "cnic"}, dated |-> {}, defaults |-> NoDefaults],
     Appointments |-> [cols |-> {"id", "patient", "doctor", "date", "time", "status"},
                       id |-> "id", unique |-> {"id"}, dated |-> {},
                       defaults |-> NoDefaults]]

\* The row init_db seeds.
AdminRow == [username |-> "admin", password |-> "admin123", role |-> "Admin"]

\* init_db of app.py: the tables if absent, then the administrator if absent.
app_init_db(d) ==
    SqlInsertOrIgnore(CreateAll(d, AppTables, AppSchemas), "Users", AdminRow, 0)

\* A faulty variant of the next definition: the password is not compared.
LoginQueryByName(d, u, p) == {r \in d["Users"].rows : r.username = u}

\* query("SELECT * FROM Users WHERE username=? AND password=?", (u, p)):
\* SQLite compares TEXT byte for byte.
LoginQuery(d, u, p) ==
    {r \in d["Users"].rows : r.username = u /\ r.password = p}

\* Lines 70-71: the login flag of a session that has none yet.
WithLoginKey(ss) ==
    IF "login" \in DOMAIN ss THEN ss ELSE [k \in {"login"} |-> FALSE]

\* What the user can type or pick.
Usernames == {"", "admin", "Admin"}
Passwords == {"", "admin123", "admin"}
Names == {"Ali"}
Phones == {"0300"}
Specialties == {"ENT"}
Dates == {"2026-01-05"}
Times == {"09:00:00"}
StatusOptions == {"Scheduled", "Completed", "Cancelled"}
StatusInputs == {"Scheduled"}
Menu == {"Dashboard", "Patients", "Doctors", "Appointments"}

CnicA == Rep(Group1, "0") \o <<DASH>> \o Rep(Group2, "0") \o <<DASH>> \o Rep(Group3, "0")
CnicB == Rep(Group1, "7") \o <<DASH>> \o Rep(Group2, "7") \o <<DASH>> \o Rep(Group3, "7")
CnicInputs == {CnicA, CnicB, CnicA \o <<NL>>, Rep(Group1, "0") \o <<DASH>>}

\* The options of the two select boxes of the Appointments page:
\* name + " | " + cnic of every row; the box reads None when it has no option.
Label(r) == <<r.name, " | ", r.cnic>>
Options(d, t) ==
    IF d[t].rows = {} THEN {None} ELSE {Label(r) : r \in d[t].rows}

\* Every label a select box can offer.
Labels == {None} \cup {<<n, " | ", c>> : n \in Names, c \in CnicInputs}

\* The frame a page passes to st.dataframe, <<>> when it shows none (the
\* search box is left empty, so the Patients and Doctors pages read all rows).
AppFrame(d, menu) ==
    IF menu = "Dashboard" THEN <<>> ELSE SelectAll(d, menu)

\* A run that ends at st.stop() on the login page.
AppStopAtLogin(d, ss, msgs) ==
    /\ db' = d
    /\ session_state' = ss
    /\ rendered' = "Login"
    /\ out' = msgs
    /\ shown' = <<>>
    /\ UNCHANGED <<program, form, pdfs, cnicIn, cnicOut>>

\* A run that passes the gate and draws the page `menu`.
AppDraw(d, ss, menu, msgs) ==
    /\ db' = d
    /\ session_state' = ss
    /\ rendered' = menu
    /\ out' = msgs
    /\ shown' = AppFrame(d, menu)
    /\ UNCHANGED <<program, form, cnicIn, cnicOut>>

\* A faulty variant of the next definition: no gate.
PassesGateAlways(ss) == TRUE

\* The login gate, lines 73-85: TRUE when the run goes on to the pages.
PassesGate(ss) == ss.login

\* A new browser session: an empty session_state and a first run of the script.
AppNewSession ==
    /\ program = "app"
    /\ pressed' = ""
    /\ AppStopAtLogin(app_init_db(db), WithLoginKey(NoKeys), <<>>)

\* A run with no button pressed (a page load, a change of the menu).
AppView(menu) ==
    /\ program = "app"
    /\ pressed' = ""
    /\ LET d1 == app_init_db(db)
           ss == WithLoginKey(session_state)
       IN  IF ~PassesGate(ss)
           THEN AppStopAtLogin(d1, ss, <<>>)
           ELSE AppDraw(d1, ss, menu, <<>>) /\ UNCHANGED pdfs

\* The Login button, pressed with u and p in the two text inputs.  A match
\* sets the flag and st.rerun() runs the script again, now past the gate
\* (the menu is at its first option).
AppLogin(u, p) ==
    /\ program = "app"
    /\ pressed' = "Login"
    /\ LET d1 == app_init_db(db)
           ss == WithLoginKey(session_state)
       IN  /\ ~PassesGate(ss)
           /\ IF LoginQuery(d1, u, p) # {}
              THEN /\ AppDraw(app_init_db(d1), [ss EXCEPT !["login"] = TRUE],
                              "Dashboard", <<>>)
                   /\ UNCHANGED pdfs
              ELSE AppStopAtLogin(d1, ss, <<"Invalid credentials">>)

\* execute("INSERT INTO Patients VALUES(NULL,?,?,?)", (name, cnic, phone))
InsertPatient(d, name, cnic, phone) ==
    SqlInsert(d, "Patients", [name |-> name, cnic |-> cnic, phone |-> phone], 0)

\* execute("INSERT INTO Doctors VALUES(NULL,?,?,?)", (name, cnic, spec))
InsertDoctor(d, name, cnic, spec) ==
    SqlInsert(d, "Doctors", [name |-> name, cnic |-> cnic, specialty |-> spec], 0)

\* The Add button of a page's form (lines 128-139 and 154-165): the page is
\* drawn, then the cnic is validated, then the row inserted; st.rerun() after
\* a success draws the page again.  An exception of execute ends the run.
AppAdd(menu, r, cnic, added) ==
    /\ program = "app"
    /\ pressed' = "Add"
    /\ LET d1 == app_init_db(db)
           ss == WithLoginKey(session_state)
       IN  IF ~PassesGate(ss)
           THEN AppStopAtLogin(d1, ss, <<>>)
           ELSE /\ UNCHANGED pdfs
                /\ IF ~valid_cnic(cnic)
                   THEN AppDraw(d1, ss, menu, <<"Invalid CNIC">>)
                   ELSE IF ~r.ok
                   THEN AppDraw(d1, ss, menu, <<r.err>>)
                   ELSE AppDraw(app_init_db(r.db), ss, menu, <<added>>)

AppAddPatient(name, cnic, phone) ==
    /\ Used(db) < MaxRows
    /\ AppAdd("Patients", InsertPatient(app_init_db(db), name, cnic, phone),
              cnic, "Patient added")

AppAddDoctor(name, cnic, spec) ==
    /\ Used(db) < MaxRows
    /\ AppAdd("Doctors", InsertDoctor(app_init_db(db), name, cnic, spec),
              cnic, "Doctor added")

\* The Book Appointment button, lines 171-186.
AppBook(p, d, date, time, status) ==
    /\ program = "app"
    /\ pressed' = "Book Appointment"
    /\ Used(db) < MaxRows
    /\ LET d1 == app_init_db(db)
           ss == WithLoginKey(session_state)
       IN  IF ~PassesGate(ss)
           THEN AppStopAtLogin(d1, ss, <<>>)
           ELSE /\ p \in Options(d1, "Patients")
                /\ d \in Options(d1, "Doctors")
                /\ LET r == SqlInsert(d1, "Appointments",
                                      [patient |-> p, doctor |-> d, date |-> date,
                                       time |-> time, status |-> status], 0)
                   IN  /\ AppDraw(app_init_db(r.db), ss, "Appointments",
                                  <<"Appointment booked">>)
                       /\ UNCHANGED pdfs

\* The Generate PDF button, lines 188-210, with aid in the number input.
AppGeneratePdf(aid) ==
    /\ program = "app"
    /\ pressed' = "Generate PDF"
    /\ LET d1 == app_init_db(db)
           ss == WithLoginKey(session_state)
       IN  IF ~PassesGate(ss)
           THEN AppStopAtLogin(d1, ss, <<>>)
           ELSE IF SelectWhere(d1, "Appointments", "id", aid) = {}
           THEN AppDraw(d1, ss, "Appointments", <<"Invalid ID">>) /\ UNCHANGED pdfs
           ELSE AppDraw(d1, ss, "Appointments", <<>>) /\ pdfs' = pdfs \cup {aid}

NextApp ==
    \/ AppNewSession
    \/ \E menu \in Menu : AppView(menu)
    \/ \E u \in Usernames, p \in Passwords : AppLogin(u, p)
    \/ \E name \in Names, cnic \in CnicInputs, phone \in Phones :
          AppAddPatient(name, cnic, phone)
    \/ \E name \in Names, cnic \in CnicInputs, spec \in Specialties :
          AppAddDoctor(name, cnic, spec)
    \/ \E p \in Labels, d \in Labels, date \in Dates, time \in Times,
          status \in StatusInputs :
          AppBook(p, d, date, time, status)
    \/ \E aid \in 1..MaxRows : AppGeneratePdf(aid)

InitApp ==
    /\ program = "app"
    /\ db = NoTables
    /\ session_state = NoKeys
    /\ rendered = "none"
    /\ out = <<>>
    /\ shown = <<>>
    /\ form = {}
    /\ pressed = ""
    /\ pdfs = {}
    /\ cnicIn = <<>>
    /\ cnicOut = "unchecked"

SpecApp == InitApp /\ [][NextApp]_vars

----------------------------------------------------------------------------
(* graphs.py *)

\* The CREATE TABLE statements of graphs.py's init_db.
GraphsTables == <<"Patients", "Doctors", "Appointments", "MedicalRecords", "Billings">>

GraphsSchemas ==
    [Patients |-> [cols |-> {"pat_id", "name", "age", "gender", "phone", "address",
                             "email", "registration_date"},
                   id |-> "pat_id", unique |-> {"pat_id"},
                   dated |-> {"registration_date"}, defaults |-> NoDefaults],
     Doctors |-> [cols |-> {"doc_id", "name", "specialty", "dept_id", "phone", "email"},
                  id |-> "doc_id", unique |-> {"doc_id"}, dated |-> {},
                  defaults |-> NoDefaults],
     Appointments |-> [cols |-> {"app_id", "pat_id", "doc_id", "app_date", "app_time",
                                 "status"},
                       id |-> "app_id", unique |-> {"app_id"}, dated |-> {},
                       defaults |-> [status |-> "Scheduled"]],
     MedicalRecords |-> [cols |-> {"record_id", "pat_id", "doc_id", "diagnosis",
                                   "treatment", "prescription"},
                         id |-> "record_id", unique |-> {"record_id"}, dated |-> {},
                         defaults |-> NoDefaults],
     Billings |-> [cols |-> {"bill_id", "pat_id", "amount", "details", "payment_status",
                             "bill_date"},
                   id |-> "bill_id", unique |-> {"bill_id"}, dated |-> {"bill_date"},
                   defaults |-> [payment_status |-> "Pending"]]]

\* init_db of graphs.py: the tables if absent.
graphs_init_db(d) == CreateAll(d, GraphsTables, GraphsSchemas)

\* The parameters of a statement with one ? per field: field -> value.
Bind(fields, values) ==
    [c \in {fields[i] : i \in 1..Len(fields)} |->
        values[CHOOSE i \in 1..Len(fields) : fields[i] = c]]

\* get_data(table_name)
get_data(d, table_name) == SelectAll(d, table_name)

\* A faulty variant of the next definition: the values are bound to the
\* columns in the opposite order.
insert_record_swapped(d, table_name, fields, values, now) ==
    SqlInsert(d, table_name,
              Bind(fields, [i \in 1..Len(values) |-> values[Len(values) + 1 - i]]), now)

\* insert_record(table_name, fields, values)
insert_record(d, table_name, fields, values, now) ==
    SqlInsert(d, table_name, Bind(fields, values), now)

\* A faulty variant of the next definition: WHERE id_column <= ?.
delete_record_upto(d, table_name, id_column, record_id) ==
    [d EXCEPT ![table_name].rows = {r \in @ : r[id_column] > record_id}]

\* delete_record(table_name, id_column, record_id)
delete_record(d, table_name, id_column, record_id) ==
    SqlDelete(d, table_name, id_column, record_id)

\* A faulty variant of the next definition: the UPDATE has no WHERE clause.
update_record_all_rows(d, table_name, id_column, record_id, fields, values) ==
    [d EXCEPT ![table_name].rows =
        {[c \in DOMAIN r |->
             IF c \in DOMAIN Bind(fields, values) THEN Bind(fields, values)[c] ELSE r[c]] :
           r \in @}]

\* update_record(table_name, id_column, record_id, fields, values):
\* values.append(record_id) makes the identifier the statement's last parameter.
update_record(d, table_name, id_column, record_id, fields, values) ==
    LET params == Append(values, record_id)
    IN  SqlUpdate(d, table_name, id_column, params[Len(params)],
                  Bind(fields, SubSeq(params, 1, Len(fields))))

\* get_record(table_name, id_column, record_id): the row, or None ({} here).
get_record(d, table_name, id_column, record_id) ==
    SelectWhere(d, table_name, id_column, record_id)

\* The fields of the two patient forms, in the order the script lists them.
PatientFields == <<"name", "age", "gender", "phone", "address", "email">>

\* What the user can type or pick in the patient forms.
GNames == {"", "Ali"}
GAges == {30}
GGenders == {"Male", "Female"}
GPhones == {"", "0300"}
GAddresses == {""}
GEmails == {"a@b.c"}
Today == {"2026-01-05", "2026-01-06"}
Choices == {"Home", "Patients", "Doctors", "Appointments", "Medical Records", "Billings"}

\* The values a patient form submits, in the order of PatientFields.
FormValues == {<<n, a, g, p, ad, e>> :
                 n \in GNames, a \in GAges, g \in GGenders, p \in GPhones,
                 ad \in GAddresses, e \in GEmails}

\* The values the update form submits: an edit of the row it was filled with.
Edits == {<<"Bea", 31, "Female", "0311", "Lahore", "b@b.c">>}

\* The add_patient form as it is drawn, nothing typed into it.
BlankForm == <<"", 1, "Male", "", "", "">>

\* The end of a run of graphs.py: what it leaves on screen and in the file.
GraphsDraw(d, choice, msgs, drawnForm) ==
    /\ db' = d
    /\ rendered' = choice
    /\ out' = msgs
    /\ shown' = IF choice = "Patients" THEN get_data(d, "Patients") ELSE <<>>
    /\ form' = drawnForm
    /\ UNCHANGED <<program, session_state, pdfs, cnicIn, cnicOut>>

\* One run of the Patients page (lines 201-264).  `clicked` holds the buttons
\* that read True in this run: the one button whose click started the run,
\* or none.  st.rerun() starts a run in which no button reads True.
PatientsPage(clicked, del_id, update_id, upd, add, now) ==
    LET d1 == graphs_init_db(db)
        row == get_record(d1, "Patients", "pat_id", update_id)
        ins == insert_record(d1, "Patients", PatientFields, add, now)
    IN  IF "Delete" \in clicked
        THEN GraphsDraw(graphs_init_db(delete_record(d1, "Patients", "pat_id", del_id)),
                        "Patients", <<"Deleted!">>, {})
        ELSE IF update_id # 0 /\ "Load" \in clicked /\ row # {} /\ "Update" \in clicked
        THEN GraphsDraw(graphs_init_db(update_record(d1, "Patients", "pat_id", update_id,
                                                     PatientFields, upd)),
                        "Patients", <<"Updated!">>, {})
        ELSE LET drawn == IF update_id # 0 /\ "Load" \in clicked /\ row # {}
                          THEN {[id |-> update_id, row |-> CHOOSE r \in row : TRUE]}
                          ELSE {}
             IN  IF "Add" \in clicked /\ add[1] # "" /\ add[4] # ""
                 THEN GraphsDraw(graphs_init_db(ins.db), "Patients",
                                 <<"Patient added!">>, {})
                 ELSE GraphsDraw(d1, "Patients", <<>>, drawn)

\* A run with no button pressed.
GView(choice) ==
    /\ program = "graphs"
    /\ pressed' = ""
    /\ IF choice = "Patients"
       THEN \E now \in Today : PatientsPage({}, 1, 1, BlankForm, BlankForm, now)
       ELSE GraphsDraw(graphs_init_db(db), choice, <<>>, {})

\* The Delete Patient button, with del_id in its number input.
GDelete(del_id) ==
    /\ program = "graphs"
    /\ pressed' = "Delete Patient"
    /\ \E now \in Today : PatientsPage({"Delete"}, del_id, 1, BlankForm, BlankForm, now)

\* The Load for Update button, with update_id in its number input.
GLoad(update_id) ==
    /\ program = "graphs"
    /\ pressed' = "Load for Update"
    /\ \E now \in Today : PatientsPage({"Load"}, 1, update_id, BlankForm, BlankForm, now)

\* The Update button of the form that Load for Update drew, with the edited
\* values in it; the number input still holds the loaded identifier.
GUpdate(upd) ==
    /\ program = "graphs"
    /\ pressed' = "Update"
    /\ form # {}
    /\ \E f \in form, now \in Today :
          PatientsPage({"Update"}, 1, f.id, upd, BlankForm, now)

\* The Add Patient button of the add_patient form.
GAdd(add, now) ==
    /\ program = "graphs"
    /\ pressed' = "Add Patient"
    /\ Used(db) < MaxRows
    /\ PatientsPage({"Add"}, 1, 1, BlankForm, add, now)

NextGraphs ==
    \/ \E choice \in Choices : GView(choice)
    \/ \E del_id \in 1..MaxRows : GDelete(del_id)
    \/ \E update_id \in 1..MaxRows : GLoad(update_id)
    \/ \E upd \in Edits : GUpdate(upd)
    \/ \E add \in FormValues, now \in Today : GAdd(add, now)

InitGraphs ==
    /\ program = "graphs"
    /\ db = NoTables
    /\ session_state = NoKeys
    /\ rendered = "none"
    /\ out = <<>>
    /\ shown = <<>>
    /\ form = {}
    /\ pressed = ""
    /\ pdfs = {}
    /\ cnicIn = <<>>
    /\ cnicOut = "unchecked"

SpecGraphs == InitGraphs /\ [][NextGraphs]_vars

----------------------------------------------------------------------------
(* The helpers of graphs.py called directly, on the tables init_db made. *)

DoctorFields == <<"name", "specialty", "dept_id", "phone", "email">>

IdColumn == [Patients |-> "pat_id", Doctors |-> "doc_id"]

HelperTables == {"Patients", "Doctors"}

\* The calls of insert_record that the harness makes.
InsertCalls ==
    {[table |-> "Patients", fields |-> PatientFields, values |-> v] :
        v \in {<<"Ali", 30, "Male", "0300", "", "a@b.c">>}}
    \cup {[table |-> "Doctors", fields |-> DoctorFields,
           values |-> <<"Dr A", "ENT", 1, "0300", "d@h.pk">>]}

\* The calls of update_record that the harness makes: the form's six fields,
\* a shorter list in another order, one field of another table.
UpdateCalls ==
    {[table |-> "Patients", fields |-> PatientFields,
      values |-> <<"Bea", 31, "Female", "0311", "Lahore", "b@b.c">>],
     [table |-> "Patients", fields |-> <<"phone", "name">>, values |-> <<"0322", "Cy">>],
     [table |-> "Doctors", fields |-> <<"specialty">>, values |-> <<"Eye">>]}

DalFrame ==
    /\ pressed' = ""
    /\ rendered' = "none"
    /\ out' = <<>>
    /\ UNCHANGED <<program, session_state, shown, form, pdfs, cnicIn, cnicOut>>

DalInsert(call, now) ==
    /\ program = "dal"
    /\ Used(db) < MaxRows
    /\ db' = insert_record(db, call.table, call.fields, call.values, now).db
    /\ DalFrame

DalDelete(table, record_id) ==
    /\ program = "dal"
    /\ db' = delete_record(db, table, IdColumn[table], record_id)
    /\ DalFrame

DalUpdate(call, record_id) ==
    /\ program = "dal"
    /\ db' = update_record(db, call.table, IdColumn[call.table], record_id,
                           call.fields, call.values)
    /\ DalFrame

NextDal ==
    \/ \E call \in InsertCalls, now \in Today : DalInsert(call, now)
    \/ \E table \in HelperTables, record_id \in 1..MaxRows : DalDelete(table, record_id)
    \/ \E call \in UpdateCalls, record_id \in 1..MaxRows : DalUpdate(call, record_id)

InitDal ==
    /\ program = "dal"
    /\ db = graphs_init_db(NoTables)
    /\ session_state = NoKeys
    /\ rendered = "none"
    /\ out = <<>>
    /\ shown = <<>>
    /\ form = {}
    /\ pressed = ""
    /\ pdfs = {}
    /\ cnicIn = <<>>
    /\ cnicOut = "unchecked"

SpecDal == InitDal /\ [][NextDal]_vars

\* Either script, deployed on an empty directory.
Init == InitApp \/ InitGraphs

Next == NextApp \/ NextGraphs

Spec == Init /\ [][Next]_vars

----------------------------------------------------------------------------
(* The validator harness: valid_cnic applied to strings around the pattern. *)

Lengths(n) == {k \in (n - Slack)..(n + Slack) : k >= 0}

Affixes == {<<>>} \cup {<<ch>> : ch \in OtherChars \cup {"7"}} \cup {<<NL, NL>>}

\* Near-pattern strings: optional prefix and suffix, group lengths off by up
\* to Slack, either separator possibly wrong, one digit possibly a letter.
CnicCandidates ==
    { pre \o Rep(a, d) \o <<s1>> \o Rep(b, "7") \o <<s2>> \o Rep(c, d) \o post :
        pre \in Affixes, post \in Affixes,
        a \in Lengths(Group1), b \in Lengths(Group2), c \in Lengths(Group3),
        s1 \in {DASH, " "}, s2 \in {DASH, "a"}, d \in {"0", "a", "U+0663"} }

InitCnic ==
    /\ program = "cnic"
    /\ db = NoTables
    /\ session_state = NoKeys
    /\ rendered = "none"
    /\ out = <<>>
    /\ shown = <<>>
    /\ form = {}
    /\ pressed = ""
    /\ pdfs = {}
    /\ cnicIn \in CnicCandidates \cup {<<>>}
    /\ cnicOut = "unchecked"

CheckCnic ==
    /\ program = "cnic"
    /\ cnicOut = "unchecked"
    /\ cnicOut' = IF valid_cnic(cnicIn) THEN "accepted" ELSE "rejected"
    /\ UNCHANGED <<program, db, session_state, rendered, out, shown, form, pressed, pdfs, cnicIn>>

NextCnic == CheckCnic

SpecCnic == InitCnic /\ [][NextCnic]_vars

----------------------------------------------------------------------------
(* The claims. *)

\* The rows of table t, none when the file has no such table yet.
RowsOf(d, t) == IF t \in DOMAIN d THEN d[t].rows ELSE {}

\* The session's login flag as the script reads it at line 73.
LoggedIn(ss) == "login" \in DOMAIN ss /\ ss["login"]

\* C1: valid_cnic accepts exactly the strings made of 5 digits, a dash,
\* 7 digits, a dash and 1 digit, and rejects every other string.
C1_AcceptsExactlyPattern ==
    cnicOut # "unchecked" => (cnicOut = "accepted" <=> FixedPattern(cnicIn))

\* C2: a Login click sets the login flag if and only if the entered username
\* and password equal a stored Users row exactly, which is 'admin'/'admin123';
\* every other pair leaves the flag false and shows 'Invalid credentials'.
C2_LoginExactPair ==
    [][\A u \in Usernames, p \in Passwords :
          AppLogin(u, p) =>
             /\ LoggedIn(session_state') <=>
                   \E r \in RowsOf(db', "Users") : r.username = u /\ r.password = p
             /\ LoggedIn(session_state') <=> (u = "admin" /\ p = "admin123")
             /\ ~LoggedIn(session_state') =>
                   out' = <<"Invalid credentials">> /\ rendered' = "Login"]_vars

C2_Witness ==
    program = "app" /\ LoggedIn(session_state) /\ rendered = "Dashboard"

\* The read-all after a completed insert into t: the previous rows unchanged,
\* plus one row that holds the supplied values under an identifier no
\* previous row has.
InsertedAndRead(t, given) ==
    LET old == RowsOf(db, t)
        new == FrameRows(shown')
        idc == db'[t].schema.id
    IN  /\ old \subseteq new
        /\ Len(shown') = Cardinality(old) + 1
        /\ Cardinality(new \ old) = 1
        /\ \A r \in new \ old :
              /\ \A c \in DOMAIN given : r[c] = given[c]
              /\ \A q \in old : q[idc] # r[idc]

\* C3: after an insert completes (insert_record, or an INSERT through
\* execute), the next read of the whole table holds exactly the previous rows,
\* unchanged, and one new row with the supplied values and a fresh identifier.
C3_InsertThenReadAll ==
    [][/\ \A name \in Names, cnic \in CnicInputs, phone \in Phones :
             AppAddPatient(name, cnic, phone) /\ out' = <<"Patient added">> =>
                InsertedAndRead("Patients",
                                [name |-> name, cnic |-> cnic, phone |-> phone])
       /\ \A name \in Names, cnic \in CnicInputs, spec \in Specialties :
             AppAddDoctor(name, cnic, spec) /\ out' = <<"Doctor added">> =>
                InsertedAndRead("Doctors",
                                [name |-> name, cnic |-> cnic, specialty |-> spec])
       /\ \A p \in Labels, d \in Labels, date \in Dates, time \in Times,
             status \in StatusInputs :
             AppBook(p, d, date, time, status) /\ out' = <<"Appointment booked">> =>
                InsertedAndRead("Appointments",
                                [patient |-> p, doctor |-> d, date |-> date,
                                 time |-> time, status |-> status])
       /\ \A add \in FormValues, now \in Today :
             GAdd(add, now) /\ out' = <<"Patient added!">> =>
                InsertedAndRead("Patients", Bind(PatientFields, add))]_vars

C3_Witness ==
    /\ out \in {<<"Patient added">>, <<"Patient added!">>}
    /\ Len(shown) = 2

\* What update_record is to do to table t for identifier v.
UpdatedExactly(call, v) ==
    LET t   == call.table
        idc == IdColumn[t]
        given == Bind(call.fields, call.values)
        old == db[t].rows
        new == db'[t].rows
    IN  /\ \A x \in DOMAIN db \ {t} : db'[x] = db[x]
        /\ DOMAIN db' = DOMAIN db
        /\ db'[t].seq = db[t].seq /\ db'[t].schema = db[t].schema
        /\ Cardinality(new) = Cardinality(old)
        /\ \A r \in old : r[idc] # v => r \in new
        /\ \A r \in old : r[idc] = v =>
              \E q \in new :
                 /\ \A c \in DOMAIN given : q[c] = given[c]
                 /\ \A c \in DOMAIN r \ DOMAIN given : q[c] = r[c]
        /\ (\A r \in old : r[idc] # v) => db' = db

\* C4: update_record changes exactly the listed fields of the row with the
\* given identifier; its other columns, every other row, every other table
\* and the number of rows stay as they were; with no such row nothing changes.
C4_UpdateExactlyTarget ==
    [][\A call \in UpdateCalls, record_id \in 1..MaxRows :
          DalUpdate(call, record_id) => UpdatedExactly(call, record_id)]_vars

C4_Witness ==
    /\ program = "dal"
    /\ \E r \in db["Patients"].rows : r.name = "Bea" /\ r.registration_date = "2026-01-06"
    /\ \E r \in db["Patients"].rows : r.name = "Ali" /\ r.registration_date = "2026-01-05"
    /\ db["Doctors"].rows # {}

\* What delete_record is to do to table t for identifier v.
DeletedExactly(t, v) ==
    LET idc == IdColumn[t]
        old == db[t].rows
        new == db'[t].rows
        hit == {r \in old : r[idc] = v}
    IN  /\ \A x \in DOMAIN db \ {t} : db'[x] = db[x]
        /\ DOMAIN db' = DOMAIN db
        /\ new = old \ hit
        /\ Cardinality(hit) <= 1
        /\ hit = {} => db' = db
        /\ delete_record(db', t, idc, v) = db'

\* C5: delete_record removes the row with the given identifier and nothing
\* else; on an identifier no row has, the database is unchanged; repeating
\* the delete changes nothing more.
C5_DeleteExactlyOne ==
    [][\A t \in HelperTables, record_id \in 1..MaxRows :
          DalDelete(t, record_id) => DeletedExactly(t, record_id)]_vars

C5_Witness ==
    /\ program = "dal"
    /\ db["Patients"].seq = 2
    /\ \E r \in db["Patients"].rows : r.pat_id = 2
    /\ \A r \in db["Patients"].rows : r.pat_id = 2
    /\ db["Doctors"].rows # {}

\* C6: init_db on a database that has the tables changes nothing, the Users
\* table of app.py holds exactly the administrator row, and the run that
\* st.rerun starts after an insert (init_db again) keeps the inserted row.
C6_InitDbIdempotent ==
    /\ program = "app" /\ db # NoTables =>
          /\ app_init_db(db) = db
          /\ db["Users"].rows = {AdminRow}
          /\ out = <<"Patient added">> => db["Patients"].rows # {}
          /\ out = <<"Doctor added">> => db["Doctors"].rows # {}
    /\ program = "graphs" /\ db # NoTables =>
          /\ graphs_init_db(db) = db
          /\ out = <<"Patient added!">> => db["Patients"].rows # {}

C6_Witness ==
    /\ program = "app"
    /\ "Patients" \in DOMAIN db
    /\ Cardinality(db["Patients"].rows) = 2
    /\ rendered = "Login"

\* C7: clicking Load for Update and then Update in the form it drew ends with
\* the patient's row holding the submitted values.
C7_LoadThenUpdateUpdates ==
    [][\A upd \in Edits :
          GUpdate(upd) =>
             \A f \in form :
                \E r \in RowsOf(db', "Patients") :
                   /\ r.pat_id = f.id
                   /\ \A c \in DOMAIN Bind(PatientFields, upd) :
                         r[c] = Bind(PatientFields, upd)[c]]_vars

\* C8: every cnic stored in Patients and in Doctors is 5 digits, a dash,
\* 7 digits, a dash and 1 digit.
C8_StoredCnicMatchesPattern ==
    program = "app" =>
       \A t \in {"Patients", "Doctors"} : \A r \in RowsOf(db, t) : FixedPattern(r.cnic)

\* No two rows of t share a cnic.
UniqueCnic(d, t) ==
    \A r1, r2 \in RowsOf(d, t) : r1.cnic = r2.cnic => r1 = r2

\* A submission of the form of page t with a cnic of the fixed pattern that
\* the table already holds: an unhandled database error, and the same rows.
DuplicateRefused(t, cnic) ==
    (/\ LoggedIn(session_state)
     /\ FixedPattern(cnic)
     /\ \E r \in RowsOf(db, t) : r.cnic = cnic)
    => /\ out' = <<"IntegrityError">>
       /\ db'[t].rows = db[t].rows
       /\ db' = db

\* C9: no two Patients rows and no two Doctors rows share a cnic, and a
\* submission with a cnic the table already holds raises a database error,
\* inserts nothing and leaves the rows as they were.
C9_CnicUnique ==
    [][/\ program = "app" => UniqueCnic(db', "Patients") /\ UniqueCnic(db', "Doctors")
       /\ \A name \in Names, cnic \in CnicInputs, phone \in Phones :
             AppAddPatient(name, cnic, phone) => DuplicateRefused("Patients", cnic)
       /\ \A name \in Names, cnic \in CnicInputs, spec \in Specialties :
             AppAddDoctor(name, cnic, spec) => DuplicateRefused("Doctors", cnic)]_vars

C9_Witness ==
    /\ program = "app"
    /\ out = <<"IntegrityError">>
    /\ rendered = "Doctors"
    /\ Cardinality(RowsOf(db, "Doctors")) = 1
    /\ RowsOf(db, "Patients") # {}

\* The tables that hold the hospital's data.
DataTables == {"Patients", "Doctors", "Appointments"}

\* C10: a run of app.py that starts with the login flag false inserts no row
\* and writes no PDF, a run that ends with it false draws no page but the
\* login page; the flag turns true only by a Login click whose credentials
\* match a Users row, and a session never turns it back to false.
C10_LoginGate ==
    [][program = "app" =>
          /\ ~LoggedIn(session_state) =>
                /\ \A t \in DataTables : RowsOf(db', t) = RowsOf(db, t)
                /\ pdfs' = pdfs
          /\ ~LoggedIn(session_state') => rendered' = "Login" /\ shown' = <<>>
          /\ ~LoggedIn(session_state) /\ LoggedIn(session_state') =>
                \E u \in Usernames, p \in Passwords :
                   /\ AppLogin(u, p)
                   /\ \E r \in RowsOf(db', "Users") : r.username = u /\ r.password = p
          /\ LoggedIn(session_state) /\ ~AppNewSession => LoggedIn(session_state')]_vars

C10_Witness ==
    /\ program = "app"
    /\ ~LoggedIn(session_state)
    /\ rendered = "Login"
    /\ RowsOf(db, "Patients") # {}
    /\ RowsOf(db, "Appointments") # {}
    /\ pdfs # {}

====
